---- MODULE Spec2Model ----
(***************************************************************************)
(* A model of ccfeplot.CcfePlot (src/ccfeplot/ccfeplot.py): one plotting   *)
(* session that owns a grid of matplotlib axes, a default axis, a legend   *)
(* registry and three parameter dictionaries.  The renderer (matplotlib)   *)
(* is an external collaborator: the model records the calls the session    *)
(* makes to it, and keeps the renderer state the session reads or writes   *)
(* (the global interactive flag, whether the figure window is still        *)
(* registered, and the global font size).                                  *)
(***************************************************************************)
EXTENDS Integers, Sequences, FiniteSets, TLC

\* Largest number of rows / columns of the axes grid that is explored.
MaxDim == 2
\* Largest number of series handed to one add_lines call.
MaxSeries == 2

VARIABLES
    subplots,                \* self._figure_settings['subplots'] = (nrows, ncolumns)
    default_ax,              \* self.default_ax: an axes handle
    _legends,                \* self._legends: OrderedDict, as a sequence of entries
    _plot_settings_default,  \* self._plot_settings_default
    _other_defaults,         \* self._other_defaults
    kwargs,                  \* self.kwargs (an attribute __init__ never creates)
    interactive,             \* matplotlib's global flag, plt.isinteractive()
    fignum_exists,           \* plt.fignum_exists(self._fig.number)
    font_size,               \* mpl.rcParams['font.size']
    op,                      \* the last call made on the session, with its arguments
    prev_plot,               \* the keywords of the call before it, if that was a plot
    result,                  \* "ok", or the exception the last call raised
    ret,                     \* what the last call returned
    calls,                   \* the renderer calls and prints the last call made
    plot_calls               \* the self.plot invocations the last add_lines made

vars == <<subplots, default_ax, _legends, _plot_settings_default, _other_defaults,
          kwargs, interactive, fignum_exists, font_size, op, prev_plot, result,
          ret, calls, plot_calls>>

-----------------------------------------------------------------------------
(* Python values.  Every value carries its type tag, so that values of      *)
(* different Python types are different and never confused.  A str is the   *)
(* sequence of its characters.                                              *)

Str(s)   == [t |-> "str",   v |-> s]
Num(n)   == [t |-> "num",   v |-> n]
Bool(b)  == [t |-> "bool",  v |-> b]
Tuple(s) == [t |-> "tuple", v |-> s]
List(s)  == [t |-> "list",  v |-> s]
Float(s) == [t |-> "float", v |-> s]
\* A dict key or a sequence index: a name or an integer
StrKey(k) == [t |-> "key", v |-> k]
IntKey(i) == [t |-> "int", v |-> i]
\* A dict: ks is its keys in insertion order, v the mapping
Dict(ks, f) == [t |-> "dict", ks |-> ks, v |-> f]
None     == [t |-> "none",  v |-> 0]

\* The empty dict
EmptyKw == [k \in {} |-> None]

\* d.pop(key, None) on a copy of the dict d
DictPop(d, key) == [k \in DOMAIN d \ {key} |-> d[k]]

-----------------------------------------------------------------------------
(* Class attributes of CcfePlot *)

_plot_defaults == [k \in {"linestyle"} |-> Str(<<"-">>)]

_other_defaults_class == [k \in {"showlegend"} |-> Bool(TRUE)]

_alias_dict ==
    [a \in {"lw", "ls", "mfc", "mew", "mec", "ms", "mev", "c", "fs"} |->
        CASE a = "lw"  -> "linewidth"
          [] a = "ls"  -> "linestyle"
          [] a = "mfc" -> "markerfacecolor"
          [] a = "mew" -> "markeredgewidth"
          [] a = "mec" -> "markeredgecolor"
          [] a = "ms"  -> "markersize"
          [] a = "mev" -> "markevery"
          [] a = "c"   -> "color"
          [] a = "fs"  -> "fontsize"]

_line_attributes ==
    {"label", "linewidth", "linestyle", "marker", "markerfacecolor",
     "markeredgewidth", "markersize", "markeredgecolor", "markevery", "alpha",
     "color"}

_uniqueparams == {"color", "label", "marker", "linestyle", "colorcycle"}

\* The attribute names of a Python function object that the model draws
\* option names from.  plt.subplots, plt.legend and plt.plot are plain
\* functions: hasattr(plt.plot, key) asks whether the FUNCTION OBJECT has an
\* attribute of that name, which is so for '__doc__' or '__name__' and for
\* no plotting option.
FunctionAttrs == {"__doc__", "__name__"}

\* hasattr(obj, key) for obj one of plt.subplots, plt.legend, plt.plot
hasattr(obj, key) == key \in FunctionAttrs

-----------------------------------------------------------------------------
(* The axes grid *)

\* The handle of the axes plt.subplots put at row i, column j of this figure
Axes(i, j) == [kind |-> "ax", fig |-> "own", r |-> i, c |-> j]

\* An Axes object that belongs to some other figure
ForeignAxes == [kind |-> "ax", fig |-> "other", r |-> 0, c |-> 0]

\* self._axes, the handles of the session's own grid
GridAxes(sp) == {Axes(i, j) : i \in 0..(sp[1] - 1), j \in 0..(sp[2] - 1)}

\* What a caller can pass as an axis target
TupleTarget(i, j) == [kind |-> "tuple", fig |-> "-", r |-> i, c |-> j]
ListTarget(i, j)  == [kind |-> "list",  fig |-> "-", r |-> i, c |-> j]
IntTarget(i)      == [kind |-> "int",   fig |-> "-", r |-> i, c |-> 0]
DefaultTarget     == [kind |-> "default", fig |-> "-", r |-> 0, c |-> 0]
NoneTarget        == [kind |-> "none",  fig |-> "-", r |-> 0, c |-> 0]

\* numpy indexing of an axis of length n by the integer i: an index in
\* -n..n-1 is accepted, a negative one counting from the end
NpIndex(i, n) ==
    IF i >= 0 - n /\ i < n
    THEN [ok |-> TRUE,  v |-> (i + n) % n]
    ELSE [ok |-> FALSE, v |-> 0]

\* CcfePlot.get_axis: [err |-> "ok" or the exception, v |-> the axes]
get_axis(sp, ax) ==
    IF ax.kind = "ax" THEN [err |-> "ok", v |-> ax]
    ELSE IF ax.kind \in {"tuple", "list"} THEN
        LET row == NpIndex(ax.r, sp[1])
            col == NpIndex(ax.c, sp[2])
        IN  IF row.ok /\ col.ok
            THEN [err |-> "ok", v |-> Axes(row.v, col.v)]
            ELSE [err |-> "IndexError", v |-> NoneTarget]
    ELSE IF ax.kind = "int" THEN [err |-> "NotImplementedError", v |-> NoneTarget]
    ELSE [err |-> "ValueError", v |-> NoneTarget]

-----------------------------------------------------------------------------
(* The session as a value.  Every method below is an operator from the      *)
(* session before the call to the session after it; s.err is "ok" or the    *)
(* exception that ended the call, s.calls the renderer calls made so far.   *)

\* One call to the renderer (or to print): the function, the axes it is
\* made on, its keyword options and its positional data
Call(fn, ax, opts, data) == [fn |-> fn, ax |-> ax, opts |-> opts, data |-> data]

NoData == <<>>

Raise(s, e) == [s EXCEPT !.err = e]

_legend_defaults ==
    [k \in {"loc", "fancybox", "framealpha", "numpoints", "ncol"} |->
        CASE k = "loc"        -> Str(<<"b", "e", "s", "t">>)
          [] k = "fancybox"   -> Bool(TRUE)
          [] k = "framealpha" -> Float("0.8")
          [] k = "numpoints"  -> Num(1)
          [] k = "ncol"       -> Num(1)]

\* A legend object made by ax.legend(...)
Legend(ax) == [t |-> "Legend", v |-> ax]

\* OrderedDict.__setitem__: an existing key keeps its place, a new key goes last
OrderedPut(od, key, value) ==
    IF \E i \in 1..Len(od) : od[i].key = key
    THEN [i \in 1..Len(od) |->
             IF od[i].key = key THEN [key |-> key, leg |-> value] ELSE od[i]]
    ELSE Append(od, [key |-> key, leg |-> value])

\* CcfePlot.set_default_axis
set_default_axis(s, indices) ==
    IF indices.kind = "int" THEN Raise(s, "NotImplementedError")
    ELSE LET g == get_axis(s.subplots, indices)
         IN  IF g.err # "ok" THEN Raise(s, g.err)
             ELSE [s EXCEPT !.default_ax = g.v,
                            !.calls = Append(@, Call("sca", g.v, EmptyKw, NoData)),
                            !.ret = g.v]

\* CcfePlot._update_legend: the registry entry is stored under the argument
\* as it was passed (an index tuple or an axes handle); a list is unhashable
_update_legend(s, indices) ==
    LET g == get_axis(s.subplots, indices)
    IN  IF g.err # "ok" THEN Raise(s, g.err)
        ELSE
        LET show == s.other["showlegend"].v
            leg  == IF show THEN Legend(g.v) ELSE None
            made == IF show
                    THEN s.calls \o <<Call("legend", g.v, _legend_defaults, NoData),
                                      Call("draggable", g.v, EmptyKw, NoData)>>
                    ELSE s.calls
        IN  IF indices.kind = "list"
            THEN [s EXCEPT !.calls = made, !.err = "TypeError"]
            ELSE [s EXCEPT !.calls = made,
                           !.legends = OrderedPut(@, indices, leg),
                           !.ret = leg]

\* The index pair the nested loops of update_legends visit at step k (from 0)
LoopIndex(sp, k) == TupleTarget(k \div sp[2], k % sp[2])

RECURSIVE update_legends_from(_, _)
update_legends_from(s, k) ==
    IF k >= s.subplots[1] * s.subplots[2] \/ s.err # "ok" THEN s
    ELSE update_legends_from(_update_legend(s, LoopIndex(s.subplots, k)), k + 1)

\* CcfePlot.update_legends: returns the registry itself
update_legends(s) ==
    LET t == update_legends_from(s, 0)
    IN  IF t.err # "ok" THEN t ELSE [t EXCEPT !.ret = t.legends]

\* redraw without the test of plt.isinteractive()
redraw_unguarded(s) ==
    LET shown == IF ~s.fignum_exists
                 THEN [s EXCEPT !.fignum_exists = TRUE,
                                !.calls = Append(@, Call("show", NoneTarget, EmptyKw, NoData))]
                 ELSE s
    IN  [shown EXCEPT !.calls = Append(@, Call("draw", NoneTarget, EmptyKw, NoData))]

\* CcfePlot.redraw
redraw(s) ==
    IF s.interactive
    THEN LET shown == IF ~s.fignum_exists
                      THEN [s EXCEPT !.fignum_exists = TRUE,
                                     !.calls = Append(@, Call("show", NoneTarget, EmptyKw, NoData))]
                      ELSE s
         IN  [shown EXCEPT !.calls = Append(@, Call("draw", NoneTarget, EmptyKw, NoData))]
    ELSE [s EXCEPT !.calls = Append(@, Call("print", NoneTarget, EmptyKw, NoData))]

\* Lines 238-242 of plot: a copy of the session's line-plot defaults, with
\* the call's options that pass hasattr(plt.plot, key) written over it
plot_settings(defaults, kw) ==
    [k \in DOMAIN defaults \cup {q \in DOMAIN kw : hasattr("plt.plot", q)} |->
        IF k \in DOMAIN kw /\ hasattr("plt.plot", k) THEN kw[k] ELSE defaults[k]]

\* The defaults after lines 238-242 had line 238 not taken a copy
defaults_after_plot_shared(defaults, kw) == plot_settings(defaults, kw)

\* The session's line-plot defaults after lines 238-242 of plot: the loop
\* writes into the copy, the defaults themselves are left as they were
defaults_after_plot(defaults, kw) == defaults

\* Axes.plot rejects a keyword that is no Line2D property
line_accepts(opts) == DOMAIN opts \subseteq _line_attributes

\* CcfePlot.plot(x, y, ax=target, **kw)
plot(s, data, target, kw) ==
    LET s1 == IF target.kind = "default" THEN [s EXCEPT !.ret = s.default_ax]
              ELSE IF target.kind \in {"tuple", "list", "int"}
                   THEN set_default_axis(s, target)
                   ELSE [s EXCEPT !.ret = target]
        ax == s1.ret
    IN  IF s1.err # "ok" THEN s1
        ELSE IF ax.kind # "ax" THEN Raise(s1, "AttributeError")
        ELSE
        LET opts == plot_settings(s1.psd, kw)
            s2 == [s1 EXCEPT
                     !.psd = defaults_after_plot(s1.psd, kw),
                     !.calls = @ \o <<Call("ticklabel_format", ax, EmptyKw, NoData),
                                      Call("plot", ax, opts, data)>>]
        IN  IF ~line_accepts(opts) THEN Raise(s2, "AttributeError")
            ELSE
            LET s3 == _update_legend(s2, ax)
            IN  IF s3.err # "ok" THEN s3
                ELSE IF s3.interactive THEN [redraw(s3) EXCEPT !.ret = None]
                ELSE [s3 EXCEPT !.ret = None]

-----------------------------------------------------------------------------
(* add_lines *)

\* value[key] in Python: err is "ok" and v what it returns, or err is the
\* exception it raises.  A dict returns the value stored under the key; a
\* list, tuple or str takes an integer index, a negative one counting from
\* the end, and a str returns the one-character str at the index.
getitem(value, key) ==
    IF value.t = "dict"
    THEN IF key.t \in {"list", "dict"} THEN [err |-> "TypeError", v |-> None]
         ELSE IF key \in DOMAIN value.v THEN [err |-> "ok", v |-> value.v[key]]
         ELSE [err |-> "KeyError", v |-> None]
    ELSE IF value.t \in {"list", "tuple", "str"}
    THEN IF key.t # "int" THEN [err |-> "TypeError", v |-> None]
         ELSE LET i == NpIndex(key.v, Len(value.v))
              IN  IF ~i.ok THEN [err |-> "IndexError", v |-> None]
                  ELSE IF value.t = "str"
                       THEN [err |-> "ok", v |-> Str(<<value.v[i.v + 1]>>)]
                       ELSE [err |-> "ok", v |-> value.v[i.v + 1]]
    ELSE [err |-> "TypeError", v |-> None]

\* value[:] in Python: a copy of a list, tuple or str; anything else raises
\* (a dict is unhashable by a slice, a number is not subscriptable)
sliceable(value) == value.t \in {"list", "tuple", "str"}

\* str.lower on the mode strings that are explored
lower(mode) ==
    CASE mode = "dict"  -> "dict"
      [] mode = "Dict"  -> "dict"
      [] mode = "array" -> "array"
      [] mode = "ARRAY" -> "array"
      [] mode = "bogus" -> "bogus"

\* The branches of add_lines had 'dict' been the fallback
mode_branch_dict_fallback(mode) ==
    IF lower(mode) = "array" THEN "array" ELSE "dict"

\* Which branch of add_lines a mode string takes
mode_branch(mode) ==
    IF lower(mode) = "dict" THEN "dict"
    ELSE IF lower(mode) = "array" THEN "array"
    ELSE "else"

\* Lines 298-302: the value of one keyword for the series `key` in 'dict' mode
dict_loop_kwarg(value, key) ==
    IF getitem(value, key).err = "ok" THEN getitem(value, key).v ELSE value

\* Lines 312-320: the value of one keyword for the row `ind` in 'array' mode
array_loop_kwarg(value, ind) ==
    IF value.t \in {"str", "tuple"} THEN value
    ELSE IF getitem(value, ind).err = "ok" THEN getitem(value, ind).v ELSE value

\* Lines 303-306 and 321-324: the x data of one series
dict_x_loop(x, key) == IF getitem(x, key).err = "ok" THEN getitem(x, key).v ELSE x

array_x_loop(x, ind) ==
    IF getitem(x, ind).err = "ok" /\ sliceable(getitem(x, ind).v)
    THEN getitem(x, ind).v ELSE x

\* What `for key in y` yields: the keys of a dict in insertion order, the
\* elements of a list
iter_keys(y) ==
    IF y.t = "dict" THEN y.ks ELSE y.v

\* len(y)
len(y) == IF y.t = "dict" THEN Len(y.ks) ELSE Len(y.v)

\* One self.plot(x_loop, y[key], **loop_kwargs) of add_lines: y[key] is
\* evaluated first and may raise; the call is recorded in s.plots
plot_one(s, key, x_loop, y, loop_kwargs) ==
    LET y_key == getitem(y, key)
    IN  IF y_key.err # "ok" THEN Raise(s, y_key.err)
        ELSE plot([s EXCEPT !.plots = Append(@, [key |-> key, x |-> x_loop,
                                                 y |-> y_key.v, kw |-> loop_kwargs])],
                  <<x_loop, y_key.v>>, DefaultTarget, loop_kwargs)

\* The loop of the 'dict' branch over `for key in y`, from the i-th key on
RECURSIVE dict_lines(_, _, _, _, _)
dict_lines(s, x, y, kw, i) ==
    IF i > Len(iter_keys(y)) \/ s.err # "ok" THEN s
    ELSE LET key == iter_keys(y)[i]
             loop_kwargs == [k \in DOMAIN kw |-> dict_loop_kwarg(kw[k], key)]
         IN  dict_lines(plot_one(s, key, dict_x_loop(x, key), y, loop_kwargs),
                        x, y, kw, i + 1)

\* The loop of the 'array' branch over range(len(y)), from the index ind on
RECURSIVE array_lines(_, _, _, _, _)
array_lines(s, x, y, kw, ind) ==
    IF ind >= len(y) \/ s.err # "ok" THEN s
    ELSE LET key == IntKey(ind)
             loop_kwargs == [k \in DOMAIN kw |-> array_loop_kwarg(kw[k], key)]
         IN  array_lines(plot_one(s, key, array_x_loop(x, key), y, loop_kwargs),
                         x, y, kw, ind + 1)

\* CcfePlot.add_lines(x, y, mode, **kw)
add_lines(s, x, y, mode, kw) ==
    LET done == CASE mode_branch(mode) = "dict"  -> dict_lines(s, x, y, kw, 1)
                  [] mode_branch(mode) = "array" -> array_lines(s, x, y, kw, 0)
                  [] OTHER -> [s EXCEPT !.calls = Append(@, Call("print", NoneTarget, EmptyKw, NoData))]
    IN  IF done.err # "ok" THEN done ELSE [done EXCEPT !.ret = None]

-----------------------------------------------------------------------------
(* The methods that read self.kwargs.  __init__ never creates that          *)
(* attribute and no other method creates it before reading it, so reading   *)
(* it raises AttributeError.                                                *)

\* The value of an instance attribute that was never assigned
NoAttr == [t |-> "noattr", v |-> 0]

\* CcfePlot.get_axes: self.kwargs['ax']
get_axes(s) ==
    IF s.kwargs = NoAttr THEN [err |-> "AttributeError", v |-> NoneTarget]
    ELSE IF "ax" \notin DOMAIN s.kwargs THEN [err |-> "KeyError", v |-> NoneTarget]
    ELSE [err |-> "ok", v |-> s.kwargs["ax"]]

\* CcfePlot.autoscale(enable, axis)
autoscale(s, enable, axis) ==
    LET g == get_axes(s)
    IN  IF g.err # "ok" THEN Raise(s, g.err)
        ELSE
        LET s1 == [s EXCEPT !.calls = Append(@,
                       Call("autoscale", g.v,
                            [k \in {"enable", "axis"} |->
                                IF k = "enable" THEN Bool(enable) ELSE Str(<<axis>>)],
                            NoData))]
            s2 == IF "xlim" \in DOMAIN s1.kwargs /\ (axis = "x" \/ axis = "both")
                  THEN [s1 EXCEPT !.kwargs = DictPop(@, "xlim")] ELSE s1
            s3 == IF "ylim" \in DOMAIN s2.kwargs /\ (axis = "y" \/ axis = "both")
                  THEN [s2 EXCEPT !.kwargs = DictPop(@, "ylim")] ELSE s2
        IN  [redraw(s3) EXCEPT !.ret = None]

\* CcfePlot.grid(**kw)
grid(s, kw) ==
    LET g == get_axes(s)
    IN  IF g.err # "ok" THEN Raise(s, g.err)
        ELSE [redraw([s EXCEPT !.calls = Append(@, Call("grid", g.v, kw, NoData))])
                EXCEPT !.ret = None]

\* CcfePlot._delete_uniqueparams
_delete_uniqueparams(s) ==
    IF s.kwargs = NoAttr THEN Raise(s, "AttributeError")
    ELSE [s EXCEPT !.kwargs = [k \in DOMAIN s.kwargs \ _uniqueparams |-> s.kwargs[k]],
                   !.ret = None]

\* CcfePlot._update(**kw): the loop header reads self.alias_dict, and the
\* attribute is named _alias_dict, so the read raises
_update(s, kw) == Raise(s, "AttributeError")

\* CcfePlot.set_fontsize
set_fontsize(s, size) == [redraw([s EXCEPT !.font_size = size]) EXCEPT !.ret = None]

-----------------------------------------------------------------------------
(* Construction *)

\* Lines 145-153: the bucket a keyword of __init__ is put in
init_bucket(key) ==
    IF hasattr("plt.subplots", key) THEN "_figure_settings"
    ELSE IF hasattr("plt.legend", key) THEN "_figure_settings"
    ELSE IF hasattr("plt.plot", key) THEN "_plot_settings_default"
    ELSE IF key \in DOMAIN _other_defaults_class THEN "_other_defaults"
    ELSE "dropped"

\* self._plot_settings_default after the loop of lines 145-153
init_plot_settings(kw) ==
    [k \in DOMAIN _plot_defaults \cup
           {q \in DOMAIN kw : init_bucket(q) = "_plot_settings_default"} |->
        IF k \in DOMAIN kw /\ init_bucket(k) = "_plot_settings_default"
        THEN kw[k] ELSE _plot_defaults[k]]

\* self._other_defaults after the loop of lines 145-153
init_other_defaults(kw) ==
    [k \in DOMAIN _other_defaults_class |->
        IF k \in DOMAIN kw /\ init_bucket(k) = "_other_defaults"
        THEN kw[k] ELSE _other_defaults_class[k]]

\* CcfePlot.__init__(nrows, ncolumns, **kw), in a process whose interactive
\* flag is inter: the session it leaves
init(nrows, ncolumns, kw, inter) ==
    set_default_axis(
        [subplots      |-> <<nrows, ncolumns>>,
         default_ax    |-> NoneTarget,
         legends       |-> <<>>,
         psd           |-> init_plot_settings(kw),
         other         |-> init_other_defaults(kw),
         kwargs        |-> NoAttr,
         interactive   |-> inter,
         fignum_exists |-> TRUE,
         font_size     |-> 10,
         calls         |-> <<>>,
         plots         |-> <<>>,
         err           |-> "ok",
         ret           |-> None],
        ListTarget(0, 0))

\* The keyword sets __init__ is called with
CtorKwargs ==
    {EmptyKw,
     [k \in {"showlegend"} |-> Bool(FALSE)],
     [k \in {"linestyle"} |-> Str(<<"-", "-">>)]}

\* The record of a call: the method, its axis target, its keywords, its
\* positional data and its mode string
OpRec(name, target, kw, data, mode) ==
    [name |-> name, target |-> target, kw |-> kw, data |-> data, mode |-> mode]

\* The session the next call starts from
Session ==
    [subplots      |-> subplots,
     default_ax    |-> default_ax,
     legends       |-> _legends,
     psd           |-> _plot_settings_default,
     other         |-> _other_defaults,
     kwargs        |-> kwargs,
     interactive   |-> interactive,
     fignum_exists |-> fignum_exists,
     font_size     |-> font_size,
     calls         |-> <<>>,
     plots         |-> <<>>,
     err           |-> "ok",
     ret           |-> None]

\* The call o is the last call from now on
Called(o) ==
    /\ op' = o
    /\ prev_plot' = [called |-> op.name = "plot",
                     kw |-> IF op.name = "plot" THEN op.kw ELSE EmptyKw]

\* The state a call leaves, given the session s it ended with
Leaves(s) ==
    /\ subplots' = s.subplots
    /\ default_ax' = s.default_ax
    /\ _legends' = s.legends
    /\ _plot_settings_default' = s.psd
    /\ _other_defaults' = s.other
    /\ kwargs' = s.kwargs
    /\ interactive' = s.interactive
    /\ fignum_exists' = s.fignum_exists
    /\ font_size' = s.font_size
    /\ result' = s.err
    /\ ret' = IF s.err = "ok" THEN s.ret ELSE None
    /\ calls' = s.calls
    /\ plot_calls' = s.plots

Init ==
    \E nrows \in 1..MaxDim, ncolumns \in 1..MaxDim, kw \in CtorKwargs, inter \in BOOLEAN :
        LET s == init(nrows, ncolumns, kw, inter)
        IN  /\ op = OpRec("__init__", TupleTarget(nrows, ncolumns), kw, NoData, "")
            /\ prev_plot = [called |-> FALSE, kw |-> EmptyKw]
            /\ subplots = s.subplots
            /\ default_ax = s.default_ax
            /\ _legends = s.legends
            /\ _plot_settings_default = s.psd
            /\ _other_defaults = s.other
            /\ kwargs = s.kwargs
            /\ interactive = s.interactive
            /\ fignum_exists = s.fignum_exists
            /\ font_size = s.font_size
            /\ result = s.err
            /\ ret = s.ret
            /\ calls = s.calls
            /\ plot_calls = s.plots

-----------------------------------------------------------------------------
(* The inputs that are explored *)

\* Index components: every index of the largest grid, the negative indices
\* numpy wraps, and one index past each end
IdxRange == (0 - MaxDim - 1)..MaxDim

\* Every target get_axis is tried on
AllTargets ==
    {TupleTarget(i, j) : i \in IdxRange, j \in IdxRange}
    \cup {ListTarget(0, 0), IntTarget(0), NoneTarget, ForeignAxes}
    \cup GridAxes(<<MaxDim, MaxDim>>)

\* The targets set_default_axis and plot are tried on: the first axes by
\* index, as a list and by handle, the last axes by negative index, an index
\* past the grid, a bare integer, the axes of another figure, an object that
\* is no axes, and 'default'
AxisTargets ==
    {TupleTarget(0, 0), ListTarget(0, 0), Axes(0, 0), TupleTarget(-1, -1),
     TupleTarget(MaxDim, 0), IntTarget(0), ForeignAxes, NoneTarget}

\* A handle a caller can hold is the handle of an axes that exists
Exists(t) == t.kind = "ax" /\ t.fig = "own" => t \in GridAxes(subplots)

\* The x and y data of a single plot call
PlotData == <<List(<<Num(0), Num(1)>>), List(<<Num(1), Num(2)>>)>>

\* Option names of a plot call: every alias and its canonical name, the
\* other line attributes, and the names hasattr(plt.plot, .) answers True to
OptionNames ==
    DOMAIN _alias_dict \cup {_alias_dict[a] : a \in DOMAIN _alias_dict}
    \cup _line_attributes \cup FunctionAttrs

\* The keyword sets of a plot call: none, one option, or a label with one
\* more option
CallKwargs ==
    {EmptyKw, [k \in {"linestyle"} |-> Str(<<"-", "-">>)]}
    \cup {[k \in {n} |-> Str(<<"A">>)] : n \in OptionNames}
    \cup {[k \in {"label", n} |-> IF k = "label" THEN Str(<<"A">>) ELSE Str(<<"B">>)] :
             n \in {"color", "__doc__", "lw"}}

\* The names of the series of a dict y, and the colours of the series
SeriesNames == <<"a", "b", "c", "d">>

Colours ==
    <<Str(<<"r", "e", "d">>), Str(<<"b", "l", "u", "e">>),
      Str(<<"g", "r", "e", "y">>), Str(<<"c", "y", "a", "n">>)>>

\* The y data of series i
Row(i) == List(<<Num(i), Num(i + 1)>>)

\* y as a dict keyed by name, as a dict keyed by 0..n-1, as a list of rows
YDictStr(n) ==
    Dict([i \in 1..n |-> StrKey(SeriesNames[i])],
         [k \in {StrKey(SeriesNames[i]) : i \in 1..n} |->
             Row(CHOOSE i \in 1..n : SeriesNames[i] = k.v)])
YDictInt(n) ==
    Dict([i \in 1..n |-> IntKey(i - 1)],
         [k \in {IntKey(i) : i \in 0..(n - 1)} |-> Row(k.v + 1)])
YArray(n)   == List([i \in 1..n |-> Row(i)])

YValues == {YDictStr(MaxSeries), YDictInt(MaxSeries), YArray(MaxSeries)}

\* x shared by all series, and x as one row per series
XShared == List(<<Num(0), Num(1)>>)
X2D(n)  == List([i \in 1..n |-> List(<<Num(0), Num(i)>>)])

\* The values of a styling option of add_lines: a text, a number, a
\* coordinate tuple, one colour per series as a list and as a dict keyed by
\* name or by index, and a list with fewer colours than series
StyleValues ==
    {Colours[1], Num(2), Tuple(<<Num(0), Num(1)>>),
     List([i \in 1..MaxSeries |-> Colours[i]]),
     List(<<Colours[1]>>),
     Dict([i \in 1..MaxSeries |-> StrKey(SeriesNames[i])],
          [k \in {StrKey(SeriesNames[i]) : i \in 1..MaxSeries} |->
              Colours[CHOOSE i \in 1..MaxSeries : SeriesNames[i] = k.v]]),
     Dict([i \in 1..MaxSeries |-> IntKey(i - 1)],
          [k \in {IntKey(i) : i \in 0..(MaxSeries - 1)} |-> Colours[k.v + 1]])}

\* The keyword sets of add_lines
LinesKwargs ==
    {EmptyKw}
    \cup {[k \in {"color"} |-> v] : v \in StyleValues}
    \cup {[k \in {"color", "linewidth"} |->
              IF k = "color" THEN List([i \in 1..MaxSeries |-> Colours[i]]) ELSE Num(2)]}

Modes == {"dict", "Dict", "array", "ARRAY", "bogus"}

-----------------------------------------------------------------------------
(* Actions: one per method of the session, and the three things the         *)
(* renderer's user does to the state the session reads back.                *)

GetAxis(t) ==
    /\ Exists(t)
    /\ Called(OpRec("get_axis", t, EmptyKw, NoData, ""))
    /\ LET g == get_axis(subplots, t)
       IN  Leaves([Session EXCEPT !.err = g.err, !.ret = g.v])

SetDefaultAxis(t) ==
    /\ Exists(t)
    /\ Called(OpRec("set_default_axis", t, EmptyKw, NoData, ""))
    /\ Leaves(set_default_axis(Session, t))

UpdateLegend(t) ==
    /\ Exists(t)
    /\ Called(OpRec("_update_legend", t, EmptyKw, NoData, ""))
    /\ Leaves(_update_legend(Session, t))

UpdateLegends ==
    /\ Called(OpRec("update_legends", NoneTarget, EmptyKw, NoData, ""))
    /\ Leaves(update_legends(Session))

Plot(t, kw) ==
    /\ Exists(t)
    /\ Called(OpRec("plot", t, kw, PlotData, ""))
    /\ Leaves(plot(Session, PlotData, t, kw))

AddLines(x, y, mode, kw) ==
    /\ Called(OpRec("add_lines", NoneTarget, kw, <<x, y>>, mode))
    /\ Leaves(add_lines(Session, x, y, mode, kw))

Autoscale(enable, axis) ==
    /\ Called(OpRec("autoscale", NoneTarget,
                    [k \in {"enable", "axis"} |->
                        IF k = "enable" THEN Bool(enable) ELSE Str(<<axis>>)],
                    NoData, ""))
    /\ Leaves(autoscale(Session, enable, axis))

Grid(kw) ==
    /\ Called(OpRec("grid", NoneTarget, kw, NoData, ""))
    /\ Leaves(grid(Session, kw))

Redraw ==
    /\ Called(OpRec("redraw", NoneTarget, EmptyKw, NoData, ""))
    /\ Leaves([redraw(Session) EXCEPT !.ret = None])

SetFontsize(size) ==
    /\ Called(OpRec("set_fontsize", NoneTarget, [k \in {"font_size"} |-> Num(size)],
                    NoData, ""))
    /\ Leaves(set_fontsize(Session, size))

Update(kw) ==
    /\ Called(OpRec("_update", NoneTarget, kw, NoData, ""))
    /\ Leaves(_update(Session, kw))

DeleteUniqueparams ==
    /\ Called(OpRec("_delete_uniqueparams", NoneTarget, EmptyKw, NoData, ""))
    /\ Leaves(_delete_uniqueparams(Session))

\* matplotlib.pyplot.ion(), which the module's import message recommends
Ion ==
    /\ Called(OpRec("plt.ion", NoneTarget, EmptyKw, NoData, ""))
    /\ Leaves([Session EXCEPT !.interactive = TRUE])

\* matplotlib.pyplot.ioff()
Ioff ==
    /\ Called(OpRec("plt.ioff", NoneTarget, EmptyKw, NoData, ""))
    /\ Leaves([Session EXCEPT !.interactive = FALSE])

\* The user closes the figure window
CloseFigure ==
    /\ fignum_exists
    /\ Called(OpRec("close", NoneTarget, EmptyKw, NoData, ""))
    /\ Leaves([Session EXCEPT !.fignum_exists = FALSE])

-----------------------------------------------------------------------------
(* Specifications *)

\* Resolving axes and moving the default axis
NextGrid ==
    \/ \E t \in AllTargets : GetAxis(t)
    \/ \E t \in AxisTargets : SetDefaultAxis(t)
    \/ \E t \in AxisTargets \cup {DefaultTarget} : Plot(t, EmptyKw)

SpecGrid == Init /\ [][NextGrid]_vars

\* The keyword sets of a plot call when the keywords are not what is looked at
FewKwargs ==
    {EmptyKw,
     [k \in {"label"} |-> Str(<<"A">>)],
     [k \in {"color"} |-> Str(<<"A">>)],
     [k \in {"linestyle"} |-> Str(<<"-", "-">>)],
     [k \in {"__doc__"} |-> Str(<<"A">>)]}

\* Plotting with every option name, and the two private methods that were
\* meant to resolve aliases and to drop the per-call options
NextPlot ==
    \/ \E kw \in CallKwargs : Plot(DefaultTarget, kw)
    \/ \E kw \in FewKwargs : Update(kw)
    \/ DeleteUniqueparams

SpecPlot == Init /\ [][NextPlot]_vars

\* Plotting and redrawing while the renderer's mode and window change
NextSession ==
    \/ \E t \in {DefaultTarget, TupleTarget(0, 0), Axes(0, 0), TupleTarget(MaxDim, 0)},
          kw \in FewKwargs : Plot(t, kw)
    \/ Redraw
    \/ \E size \in {10, 12} : SetFontsize(size)
    \/ \E enable \in BOOLEAN, axis \in {"x", "y", "both"} : Autoscale(enable, axis)
    \/ \E kw \in {EmptyKw, [k \in {"linewidth"} |-> Num(2)]} : Grid(kw)
    \/ Ion
    \/ Ioff
    \/ CloseFigure

SpecSession == Init /\ [][NextSession]_vars

\* The legend registry under plot, set_default_axis and the two legend methods
NextLegend ==
    \/ Plot(DefaultTarget, EmptyKw)
    \/ \E t \in {TupleTarget(0, 0), TupleTarget(-1, -1)} : SetDefaultAxis(t)
    \/ \E t \in {TupleTarget(0, 0), TupleTarget(-1, -1), TupleTarget(MaxDim, 0),
                 ListTarget(0, 0), Axes(0, 0)} : UpdateLegend(t)
    \/ UpdateLegends

SpecLegend == Init /\ [][NextLegend]_vars

\* add_lines in every mode
NextLines ==
    \/ \E y \in YValues, mode \in Modes, kw \in LinesKwargs :
          AddLines(XShared, y, mode, kw)
    \/ \E y \in YValues, mode \in Modes : AddLines(X2D(MaxSeries), y, mode, EmptyKw)

SpecLines == Init /\ [][NextLines]_vars

-----------------------------------------------------------------------------
(* Properties *)

\* The option sets the last call handed to the renderer's line-draw primitive
HandedOpts == {calls[i].opts : i \in {j \in 1..Len(calls) : calls[j].fn = "plot"}}

InGrid(t) == t.r \in 0..(subplots[1] - 1) /\ t.c \in 0..(subplots[2] - 1)

\* C1: resolving an index pair (r, c) returns the surface at (r, c) when
\* 0 <= r < rows and 0 <= c < columns, and fails with an index-out-of-range
\* error for every other pair, a pair with a negative component included.
C1_IndexPairResolution ==
    op.name = "get_axis" /\ op.target.kind \in {"tuple", "list"} =>
        IF InGrid(op.target)
        THEN result = "ok" /\ ret = Axes(op.target.r, op.target.c)
        ELSE result = "IndexError"

\* C2: the option set a plot call hands to the renderer holds the session's
\* line-plot default for every option the call does not supply, and the
\* call's own value for every option the call supplies.
C2_DefaultsMergedWithCallOptions ==
    op.name = "plot" =>
        \A opts \in HandedOpts : \A k \in _line_attributes :
            /\ k \notin DOMAIN op.kw /\ k \in DOMAIN _plot_settings_default =>
                  k \in DOMAIN opts /\ opts[k] = _plot_settings_default[k]
            /\ k \in DOMAIN op.kw => k \in DOMAIN opts /\ opts[k] = op.kw[k]

\* The canonical name of an option name, and a keyword set under canonical names
Canon(k) == IF k \in DOMAIN _alias_dict THEN _alias_dict[k] ELSE k

Canonical(kw) ==
    [k \in {Canon(q) : q \in DOMAIN kw} |-> kw[CHOOSE q \in DOMAIN kw : Canon(q) = k]]

\* C3: a plot call that supplies an alias hands the renderer the option set
\* the same call hands it when it supplies the canonical name instead, and
\* that option set holds the value under the canonical name.
C3_AliasEqualsCanonical ==
    op.name = "plot" =>
        \A opts \in HandedOpts : \A a \in DOMAIN op.kw \cap DOMAIN _alias_dict :
            /\ opts = plot_settings(_plot_settings_default, Canonical(op.kw))
            /\ _alias_dict[a] \in DOMAIN opts
            /\ opts[_alias_dict[a]] = op.kw[a]

\* C4: in add_lines, in either mode and for every kind of key, the plot call
\* of series k receives option[k] when the option is a mapping or a list
\* that k indexes, and the whole option when the option is a number, a text
\* or a tuple.
C4_PerSeriesOrBroadcast ==
    op.name = "add_lines" =>
        \A i \in 1..Len(plot_calls) : \A k \in DOMAIN op.kw :
            LET option == op.kw[k]
                got    == plot_calls[i].kw[k]
            IN  IF option.t \in {"num", "str", "tuple"} THEN got = option
                ELSE getitem(option, plot_calls[i].key).err = "ok" =>
                        got = getitem(option, plot_calls[i].key).v

\* C5: update_legends returns a mapping with exactly rows * columns entries,
\* keyed by the index pairs of the grid in row-major order, whatever plot,
\* set_default_axis and _update_legend calls came before.
C5_LegendsOnePerSurfaceRowMajor ==
    op.name = "update_legends" =>
        /\ result = "ok"
        /\ Len(ret) = subplots[1] * subplots[2]
        /\ \A k \in 1..Len(ret) : ret[k].key = LoopIndex(subplots, k - 1)

\* C6: autoscale(enable=True, axis) completes and leaves no recorded x-limit
\* for axis 'x' or 'both', no recorded y-limit for axis 'y' or 'both'.
C6_AutoscaleClearsLimit ==
    op.name = "autoscale" /\ op.kw["enable"].v =>
        /\ result = "ok"
        /\ kwargs # NoAttr
        /\ op.kw["axis"].v[1] \in {"x", "both"} => "xlim" \notin DOMAIN kwargs
        /\ op.kw["axis"].v[1] \in {"y", "both"} => "ylim" \notin DOMAIN kwargs

\* C7: no call changes the session's line-plot defaults; an option a plot
\* call does not supply reaches the renderer with the session default it had
\* before the call, or not at all; and a value the previous plot call
\* supplied reaches the renderer again only if the session default holds it.
C7_CallOptionsDoNotPersist ==
    [][/\ _plot_settings_default' = _plot_settings_default
       /\ op'.name = "plot" =>
             \A i \in 1..Len(calls') : calls'[i].fn = "plot" =>
                /\ \A k \in DOMAIN calls'[i].opts \ DOMAIN op'.kw :
                      /\ k \in DOMAIN _plot_settings_default
                      /\ calls'[i].opts[k] = _plot_settings_default[k]
                /\ op.name = "plot" =>
                      \A k \in (DOMAIN op.kw \cap DOMAIN calls'[i].opts) \ DOMAIN op'.kw :
                          calls'[i].opts[k] = op.kw[k] =>
                              /\ k \in DOMAIN _plot_defaults
                              /\ _plot_defaults[k] = op.kw[k]]_vars

\* A plot call without a label has gone through right after a plot call
\* that supplied one
C7_Witness ==
    /\ op.name = "plot" /\ result = "ok"
    /\ "label" \notin DOMAIN op.kw
    /\ HandedOpts # {}
    /\ prev_plot.called /\ "label" \in DOMAIN prev_plot.kw

\* C8: add_lines with a mode that is neither 'dict' nor 'array' in lower
\* case makes no plot call and no renderer call, emits one diagnostic,
\* returns without raising and leaves the session as it was.
C8_UnknownModeIsNoOp ==
    [][op'.name = "add_lines" /\ lower(op'.mode) \notin {"dict", "array"} =>
          /\ plot_calls' = <<>>
          /\ Len(calls') = 1 /\ calls'[1].fn = "print"
          /\ result' = "ok"
          /\ UNCHANGED <<subplots, default_ax, _legends, _plot_settings_default,
                         _other_defaults, kwargs, interactive, fignum_exists,
                         font_size>>]_vars

\* add_lines with mode 'bogus' has returned on a session that has plotted
C8_Witness ==
    /\ op.name = "add_lines" /\ op.mode = "bogus" /\ result = "ok"
    /\ op.kw # EmptyKw
    /\ _legends # <<>>

\* C9: the default axis is one of the axes of the session's own grid.
C9_DefaultAxisInGrid == default_ax \in GridAxes(subplots)

\* The calls of one redraw in interactive mode, the window open or not
RedrawCalls(open) ==
    (IF open THEN <<>> ELSE <<Call("show", NoneTarget, EmptyKw, NoData)>>)
    \o <<Call("draw", NoneTarget, EmptyKw, NoData)>>

Count(cs, fn) == Cardinality({i \in 1..Len(cs) : cs[i].fn = fn})

\* The last n elements of a sequence that has at least n
Tail_n(cs, n) == SubSeq(cs, Len(cs) - n + 1, Len(cs))

\* C10: while the renderer is not interactive no call shows the window or
\* repaints the canvas, redraw only emits its diagnostic and plot emits
\* none; while it is interactive redraw shows the window if it is closed
\* and repaints, and a plot call that goes through ends with that redraw
\* and repaints once.
C10_RedrawFollowsInteractiveMode ==
    [][/\ ~interactive =>
             /\ Count(calls', "show") = 0 /\ Count(calls', "draw") = 0
             /\ fignum_exists' => fignum_exists
             /\ op'.name \in {"redraw", "set_fontsize"} =>
                   calls' = <<Call("print", NoneTarget, EmptyKw, NoData)>>
             /\ op'.name = "plot" => Count(calls', "print") = 0
       /\ interactive /\ op'.name = "redraw" =>
             calls' = RedrawCalls(fignum_exists) /\ fignum_exists'
       /\ interactive /\ op'.name = "plot" /\ result' = "ok" =>
             /\ Len(calls') >= Len(RedrawCalls(fignum_exists))
             /\ Tail_n(calls', Len(RedrawCalls(fignum_exists))) = RedrawCalls(fignum_exists)
             /\ Count(calls', "draw") = 1
             /\ Count(calls', "show") = (IF fignum_exists THEN 0 ELSE 1)
             /\ fignum_exists']_vars

\* A plot call has gone through in interactive mode on a closed window,
\* which its redraw showed again
C10_Witness ==
    /\ op.name = "plot" /\ result = "ok" /\ interactive
    /\ Count(calls, "show") = 1 /\ Count(calls, "draw") = 1

====
